---- MODULE Spec2Model ----
(***************************************************************************)
(* A model of the store engine (createStore), the composer (compose) and   *)
(* the middleware applicator (applyMiddleware).                            *)
(*                                                                         *)
(* JavaScript runs single-threaded: the model keeps the synchronous call   *)
(* stack explicitly.  The code that runs on top of the stack (application  *)
(* code when the stack is empty, a reducer, a listener, a middleware) may  *)
(* call the store's operations in any order; those calls are the inputs.   *)
(* An uncaught error unwinds the whole stack in the step that raises it    *)
(* (no modelled caller catches), running the finally block of dispatch on  *)
(* the way.                                                                *)
(*                                                                         *)
(* The properties speak of the past (what a pass has invoked, how the last *)
(* call ended), so the model records history.  Recording all of it at once *)
(* multiplies the state space, so each specification records one kind of   *)
(* history, named by `observe`, which never changes and which no operation *)
(* of the store reads: the store behaves the same under every one of them. *)
(***************************************************************************)
EXTENDS Integers, Sequences, FiniteSets, Bags, TLC

(***************************************************************************)
(* Bounds.                                                                 *)
(***************************************************************************)
MaxSubs == 3        \* subscribe() calls that succeed, under history "passes"
MaxSubsFew == 2     \* the same under "calls", "state" and "seen"
MaxSubsChain == 1   \* the same under "chain"
MaxNest == 2        \* calls of store.dispatch in progress at the same time
MaxNestFew == 1     \* the same under "observable"
MaxMw == 2          \* middlewares given to applyMiddleware
StateMod == 3       \* the state is a counter kept modulo StateMod

(***************************************************************************)
(* Inputs.                                                                 *)
(***************************************************************************)
Callbacks == {"a", "b"}                  \* listener functions (by identity)
NotAFunction == "notAFunction"           \* an argument that is not callable
Reducers == {"counter", "doubler"}       \* reducer functions (by identity)
Strict == "strict"                       \* a reducer that refuses the REPLACE action
States == 0 .. (StateMod - 1)

\* src/unnamed/part_000: the reserved action types.
INIT == "@@redux/INIT"
REPLACE == "@@redux/REPLACE"
Undefined == "undefined"

\* An action value: kind is what typeof gives (null told apart), proto is the
\* length of its prototype chain (1 for an object literal), type its type field.
PlainAction(t) == [kind |-> "object", proto |-> 1, type |-> t]
UserActions ==
    { PlainAction("INC"), PlainAction("BOOM"), PlainAction(Undefined),
      [kind |-> "object", proto |-> 2, type |-> "INC"],
      [kind |-> "function", proto |-> 2, type |-> Undefined] }

\* src/unnamed/part_001 isPlainObject: walk to the top of the prototype chain
\* and compare it with the first prototype.
\* An object is named here by the length of the chain above it, so that
\* Object.getPrototypeOf(k) is k - 1 and the object whose prototype is null is 0.
RECURSIVE TopOfChain(_)
TopOfChain(k) == IF k = 0 THEN k ELSE TopOfChain(k - 1)
isPlainObject(obj) ==
    IF obj.kind # "object" THEN FALSE
    ELSE obj.proto > 0 /\ obj.proto - 1 = TopOfChain(obj.proto)

\* The reducers used as inputs: (state, action) -> state, or an error.
ReducerThrows(r, s, a) ==
    \/ r = "counter" /\ a.type = "BOOM"
    \/ r = Strict /\ a.type = REPLACE
Reduce(r, s, a) ==
    IF r \in {"counter", Strict}
    THEN IF a.type = "INC" THEN (s + 1) % StateMod ELSE s
    ELSE IF a.type = "INC" THEN (2 * s + 1) % StateMod
         ELSE IF a.type = REPLACE THEN (s + 2) % StateMod
         ELSE s

(***************************************************************************)
(* State.                                                                  *)
(***************************************************************************)
VARIABLES
    observe,           \* the history this specification records
    pc,                \* where the construction of the store stands (see below)
    middlewares,       \* applyMiddleware's arguments, <<1, ..., n>>
    chain,             \* applyMiddleware's `chain`: the links made so far
    linked,            \* the links compose has already applied, rightmost first
    currentReducer,    \* createStore closure variables
    currentState,
    currentListeners,  \* reference (index into heap)
    nextListeners,     \* reference (index into heap)
    isDispatching,
    heap,              \* the listener arrays, by reference
    subs,              \* the closures made by subscribe: listener, isSubscribed
    dispatch,          \* applyMiddleware's `let dispatch`
    stack,             \* the call stack, innermost frame last
    lastCall,          \* the last call of a store operation and how it ended
    trace,             \* what the outermost store.dispatch call ran, in order
    functions,         \* compose's arguments
    args,              \* the arguments the function compose returned is called with
    composed,          \* the function compose returned
    result             \* what that function returned

\* The variables of a use of compose on its own.
composeVars == << functions, args, composed, result >>

vars == << observe, pc, middlewares, chain, linked, currentReducer, currentState, currentListeners,
           nextListeners, isDispatching, heap, subs, dispatch, stack,
           lastCall, trace, composeVars >>

(***************************************************************************)
(* The listener arrays.  JavaScript arrays are shared by reference: the    *)
(* heap maps a reference to the array's content.  The name of a reference  *)
(* cannot be observed, and an array nothing refers to any more is          *)
(* collected: after every step the arrays still referred to are renamed in *)
(* the order currentListeners, nextListeners, the snapshots of the         *)
(* dispatches on the stack, and the other slots are emptied.               *)
(***************************************************************************)
NumArrays == MaxNest + 3
ArrIds == 1 .. NumArrays

HoldsSnapshot(f) == f.kind = "dispatch" /\ f.phase = "notify"
SnapRefs(stk) == { stk[p].listeners : p \in { q \in DOMAIN stk : HoldsSnapshot(stk[q]) } }
FreeIds == ArrIds \ ({currentListeners, nextListeners} \cup SnapRefs(stack))
NewArray == CHOOSE id \in FreeIds : \A other \in FreeIds : id <= other

\* The references in use, in the order that names them (0: no reference).
RefSeq(cl, nl, stk) ==
    << cl, nl >> \o [p \in DOMAIN stk |->
                       IF HoldsSnapshot(stk[p]) THEN stk[p].listeners ELSE 0]
FirstPos(R, id) == CHOOSE p \in DOMAIN R : R[p] = id /\ \A q \in 1 .. (p - 1) : R[q] # id
NameOf(R, id) == Cardinality({ R[q] : q \in 1 .. FirstPos(R, id) } \ {0})

\* The store's references, the heap and the stack after a step that leaves
\* them as cl, nl, h and stk.
Commit(cl, nl, h, stk) ==
    LET R == RefSeq(cl, nl, stk)
        used == { R[q] : q \in DOMAIN R } \ {0}
    IN  /\ currentListeners' = NameOf(R, cl)
        /\ nextListeners' = NameOf(R, nl)
        /\ heap' = [n \in ArrIds |->
                      IF \E id \in used : NameOf(R, id) = n
                      THEN h[CHOOSE id \in used : NameOf(R, id) = n]
                      ELSE << >>]
        /\ stack' = [p \in DOMAIN stk |->
                       IF HoldsSnapshot(stk[p])
                       THEN [stk[p] EXCEPT !.listeners = NameOf(R, @)]
                       ELSE stk[p]]

\* A variant that gives the 1-based position (for C8).
indexOfOneBased(arr, x) ==
    IF \E p \in DOMAIN arr : arr[p] = x
    THEN CHOOSE p \in DOMAIN arr : arr[p] = x /\ \A q \in 1 .. (p - 1) : arr[q] # x
    ELSE -1

\* Array.prototype.indexOf, 0-based, -1 when absent.
indexOf(arr, x) ==
    IF \E p \in DOMAIN arr : arr[p] = x
    THEN (CHOOSE p \in DOMAIN arr : arr[p] = x /\ \A q \in 1 .. (p - 1) : arr[q] # x) - 1
    ELSE -1
\* Array.prototype.splice(start, 1): a negative start counts from the end.
splice1(arr, start) ==
    LET from == IF start < 0
                THEN (IF Len(arr) + start < 0 THEN 0 ELSE Len(arr) + start)
                ELSE (IF start > Len(arr) THEN Len(arr) ELSE start)
    IN  [p \in 1 .. (IF from < Len(arr) THEN Len(arr) - 1 ELSE Len(arr)) |->
            IF p <= from THEN arr[p] ELSE arr[p + 1]]

\* A variant that never copies (for C2).
ensureCanMutateWithoutCopy == [next |-> nextListeners, heap |-> heap]

\* ensureCanMutateNextListeners: the reference nextListeners holds afterwards
\* and the heap afterwards.
ensureCanMutateNextListeners ==
    IF nextListeners = currentListeners
    THEN [next |-> NewArray,
          heap |-> [heap EXCEPT ![NewArray] = heap[currentListeners]]]
    ELSE [next |-> nextListeners, heap |-> heap]

(***************************************************************************)
(* The call stack.                                                         *)
(***************************************************************************)
Top == stack[Len(stack)]
Pop == SubSeq(stack, 1, Len(stack) - 1)
SetTop(f) == [stack EXCEPT ![Len(stack)] = f]

InReducer == stack # << >> /\ Top.kind = "dispatch" /\ Top.phase = "reduce"
InListener == stack # << >> /\ Top.kind = "listener"
\* observer.next, called by observable's subscribe itself (line 342), runs.
InFirstNext == stack # << >> /\ Top.kind = "next"
AtTopLevel == stack = << >>
\* Code that holds the store handle and is running now.
HoldsStore == pc = "ready" /\ (AtTopLevel \/ InListener \/ InReducer \/ InFirstNext)

\* Calls of store.dispatch (or of replaceReducer, createStore) in progress.
Calls == Cardinality({ p \in DOMAIN stack : stack[p].entry })

\* The calls of store.dispatch a run may have in progress at the same time.
NestBound == IF observe = "observable" THEN MaxNestFew ELSE MaxNest

\* The subscriptions a run may make, by the history recorded.
SubsBound ==
    IF observe = "passes" THEN MaxSubs
    ELSE IF observe = "observable" THEN MaxSubsFew
    ELSE IF observe = "chain" THEN MaxSubsChain
    ELSE MaxSubsFew

LiveSubs == { k \in DOMAIN subs : subs[k].isSubscribed }

\* What the store's callers can observe of the listener registry.
Registry == << heap[currentListeners], heap[nextListeners],
               [k \in DOMAIN subs |-> subs[k].isSubscribed] >>

\* A variant without the finally block (for C5).
FlagWithoutFinally == isDispatching

\* The flag after an error has left every frame: the finally of a dispatch
\* whose reducer was running clears it.
FlagAfterUnwind ==
    IF \E p \in DOMAIN stack : stack[p].kind = "dispatch" /\ stack[p].phase = "reduce"
    THEN FALSE
    ELSE isDispatching

\* The outermost call in progress is a store.dispatch made by the application.
Tracing == stack # << >> /\ stack[1].outer
Raised == << "raise", 0 >>

\* A variant whose cleanup also takes the snapshot (for C16).
RaiseAndAlias(t, tracing) ==
    /\ Commit(nextListeners, nextListeners, heap, << >>)
    /\ isDispatching' = FlagAfterUnwind
    /\ trace' = IF tracing /\ observe = "chain" THEN Append(t, Raised) ELSE t
    /\ UNCHANGED << currentState, subs >>

\* An error nobody catches: every frame is left.  t is the trace so far and
\* tracing tells whether the error leaves a traced call.
Raise(t, tracing) ==
    /\ Commit(currentListeners, nextListeners, heap, << >>)
    /\ isDispatching' = FlagAfterUnwind
    /\ trace' = IF tracing /\ observe = "chain" THEN Append(t, Raised) ELSE t
    /\ UNCHANGED << currentState, subs >>

\* History "calls": the last call of a store operation: whether the reducer
\* was running, whether the subscription was live (unsubscribe), whether the
\* call came right after a dispatch whose reducer raised, how it ended ("ok",
\* "input": an argument was refused, "reentrant": refused because the reducer
\* is running) and whether it changed the state or the listener registry.
\* Kept for the calls made while the reducer runs, the calls of an unsubscribe
\* function that has already run, and the call that follows a reducer's error.
NoCall == [op |-> "none", sub |-> 0, dispatching |-> FALSE, live |-> TRUE,
           afterRaise |-> FALSE, ended |-> "ok", changed |-> FALSE, value |-> 0]
ReducerRaised == [NoCall EXCEPT !.op = "reducerRaised"]
CalledSub(op, k, live, ended, before) ==
    lastCall' = IF observe = "calls"
                   /\ (isDispatching \/ ~live \/ lastCall.op = "reducerRaised")
                THEN [op |-> op, sub |-> k, dispatching |-> isDispatching, live |-> live,
                      afterRaise |-> (lastCall.op = "reducerRaised"),
                      ended |-> ended,
                      changed |-> (currentState' # currentState \/ Registry' # before),
                      value |-> 0]
                ELSE NoCall
Called(op, live, ended, before) == CalledSub(op, 0, live, ended, before)

(***************************************************************************)
(* createStore: dispatch.                                                  *)
(***************************************************************************)
\* The frame of a dispatch whose reducer r is running.  regBefore, snap0,
\* liveAtSnap, invoked, seen and nested are history kept for the properties:
\*   regBefore   the subscriptions live when dispatch was called   ("seen")
\*   seen        <<callback, state>> for every listener invoked, by any
\*               pass, since dispatch was called                   ("seen")
\*   snap0       the content of the snapshot when it was taken     ("passes")
\*   liveAtSnap  the subscriptions live when it was taken          ("passes")
\*   invoked     the callbacks this pass has invoked, in order     ("passes")
\*   nested      a listener of this pass has dispatched            ("state")
\*   atCall      the stored reducer and the registry at the call   ("replace")
DispatchFrame(a, r, outer, entry) ==
    [kind |-> "dispatch", phase |-> "reduce", action |-> a, reducer |-> r,
     prevState |-> currentState, listeners |-> 0, i |-> 0,
     outer |-> outer, entry |-> entry,
     regBefore |-> IF observe = "seen" THEN LiveSubs ELSE {},
     snap0 |-> << >>, liveAtSnap |-> {},
     invoked |-> << >>, seen |-> {}, nested |-> FALSE,
     atCall |-> IF observe = "replace" THEN << currentReducer, Registry >> ELSE << >>]

\* Every dispatch on the stack has had a dispatch made from its listeners.
MarkNested(stk) ==
    [p \in DOMAIN stk |->
        IF stk[p].kind = "dispatch" /\ observe = "state"
        THEN [stk[p] EXCEPT !.nested = TRUE]
        ELSE stk[p]]

\* The frame once the reducer has returned and the snapshot is taken as the
\* array `listeners`.  The locals the rest of the call does not read (the
\* reducer, the state it was given, the action, which is only returned) are
\* kept under "state" alone.
NotifyFrame(f, listeners) ==
    LET g == [f EXCEPT !.phase = "notify", !.listeners = listeners]
        h == IF observe \in {"passes", "observable"}
             THEN [g EXCEPT !.snap0 = heap[listeners], !.liveAtSnap = LiveSubs]
             ELSE g
    IN  IF observe = "state"
        THEN h
        ELSE [h EXCEPT !.action = PlainAction(Undefined), !.reducer = "", !.prevState = 0,
                       !.atCall = << >>]

\* dispatch(action), lines 239-262, called with the stack stk below it: the
\* checks, then the flag is set and the reducer r starts.
RawDispatch(a, op, r, outer, entry, t, stk) ==
    LET tr == IF outer /\ observe = "chain" THEN Append(t, << "raw", 0 >>) ELSE t
        before == Registry
    IN  IF ~isPlainObject(a) \/ a.type = Undefined
        THEN /\ Raise(tr, outer \/ Tracing)
             /\ Called(op, TRUE, "input", before)
        ELSE IF isDispatching
        THEN /\ Raise(tr, outer \/ Tracing)
             /\ Called(op, TRUE, "reentrant", before)
        ELSE /\ isDispatching' = TRUE
             /\ stack' = Append(MarkNested(stk), DispatchFrame(a, r, outer, entry))
             /\ trace' = tr
             /\ UNCHANGED << currentState, currentListeners, nextListeners, subs, heap >>
             /\ Called(op, TRUE, "ok", before)

\* A variant that iterates the old current list (for C3).
SnapshotOfCurrent == currentListeners

\* The reference that line 274 gives to both `listeners` and currentListeners.
Snapshot == nextListeners

\* A variant that keeps the state the reducer was given (for C1).
ReducerResultDropped(f) == f.prevState

\* Line 264: the value the reducer returns to the dispatch of frame f.
ReducerResult(f) == Reduce(f.reducer, f.prevState, f.action)

\* A variant whose loop stops one listener early (for C9).
PassOverOneEarly(f) == f.i >= Len(heap[f.listeners]) - 1

\* Line 275: the loop of the pass of frame f is over.
PassOver(f) == f.i >= Len(heap[f.listeners])

\* Lines 264-274: the reducer returns or raises, the finally clears the flag,
\* and on success the state is adopted and the snapshot taken.
ReducerReturn ==
    /\ InReducer
    /\ IF ReducerThrows(Top.reducer, Top.prevState, Top.action)
       THEN /\ Raise(trace, Tracing)
            /\ lastCall' = IF observe = "calls" THEN ReducerRaised ELSE lastCall
       ELSE /\ currentState' = ReducerResult(Top)
            /\ isDispatching' = FALSE
            /\ Commit(Snapshot, nextListeners, heap, SetTop(NotifyFrame(Top, Snapshot)))
            /\ lastCall' = IF observe = "calls" THEN NoCall ELSE lastCall
            /\ UNCHANGED << subs, trace >>
    /\ UNCHANGED << composeVars, observe, pc, middlewares, chain, linked, currentReducer, dispatch >>

\* The listeners observable's subscribe registers (lines 336-340), one closure
\* for each call: those of an observer that has a next method, and those of
\* an observer that has none.
WatchFns == << "watch1", "watch2", "watch3", "watch4" >>
MuteFns == << "mute1", "mute2", "mute3", "mute4" >>
Range(sq) == { sq[p] : p \in DOMAIN sq }
HasNext(cb) == cb \in Range(WatchFns)

\* Line 136: the value getState() returns.
getState == currentState

\* observeState, lines 336-340, as the listener cb: the value it gives to
\* observer.next (0: next is not called; a plain listener is given nothing).
observeState(cb) == IF HasNext(cb) THEN getState ELSE 0

\* Lines 275-277: the next listener of the snapshot is called.
NotifyNext ==
    /\ stack # << >> /\ Top.kind = "dispatch" /\ Top.phase = "notify"
    /\ ~PassOver(Top)
    /\ LET cb == heap[Top.listeners][Top.i + 1]
           saw(f) == IF f.kind = "dispatch" /\ observe = "seen"
                     THEN [f EXCEPT !.seen = @ \cup {<< cb, currentState >>}]
                     ELSE f
           me == [Top EXCEPT !.i = @ + 1,
                             !.invoked = IF observe \in {"passes", "observable"}
                                         THEN Append(@, cb)
                                         ELSE @]
           stk == SetTop(me)
       IN  stack' = Append([p \in DOMAIN stk |-> saw(stk[p])],
                           [kind |-> "listener", cb |-> cb,
                            outer |-> FALSE, entry |-> FALSE,
                            value |-> observeState(cb)])
    /\ UNCHANGED << composeVars, observe, pc, middlewares, chain, linked, currentReducer, currentState,
                    currentListeners, nextListeners, isDispatching, heap, subs, dispatch,
                    lastCall, trace >>

\* Line 280: the loop is over and dispatch returns the action.
DispatchReturn ==
    /\ stack # << >> /\ Top.kind = "dispatch" /\ Top.phase = "notify"
    /\ PassOver(Top)
    /\ Commit(currentListeners, nextListeners, heap, Pop)
    /\ trace' = IF Top.outer /\ observe = "chain"
                THEN Append(trace, << "done", 0 >>)
                ELSE trace
    /\ UNCHANGED << composeVars, observe, pc, middlewares, chain, linked, currentReducer, currentState,
                    isDispatching, subs, dispatch, lastCall >>

\* A listener returns, or raises.
ListenerReturn ==
    /\ InListener
    /\ stack' = Pop
    /\ UNCHANGED << composeVars, observe, pc, middlewares, chain, linked, currentReducer, currentState,
                    currentListeners, nextListeners, isDispatching, heap, subs, dispatch,
                    lastCall, trace >>

\* History "passes": a listener has raised, and so many entries of the
\* snapshot of its pass came after it.
ListenerRaised(f) ==
    [NoCall EXCEPT !.op = "listenerRaised", !.value = Len(heap[f.listeners]) - f.i]

\* A variant whose loop catches the listener's error and goes on (for C20).
ListenerThrowSwallowed ==
    /\ InListener
    /\ stack' = Pop
    /\ lastCall' = IF observe = "passes" THEN ListenerRaised(stack[Len(stack) - 1])
                   ELSE lastCall
    /\ UNCHANGED << composeVars, observe, pc, middlewares, chain, linked, currentReducer, currentState,
                    currentListeners, nextListeners, isDispatching, heap, subs, dispatch,
                    trace >>

\* Line 277: the listener raises; nothing in dispatch catches it.
ListenerThrow ==
    /\ InListener
    /\ Raise(trace, Tracing)
    /\ lastCall' = IF observe = "passes" THEN ListenerRaised(stack[Len(stack) - 1])
                   ELSE lastCall
    /\ UNCHANGED << composeVars, observe, pc, middlewares, chain, linked, currentReducer, dispatch >>

(***************************************************************************)
(* createStore: getState, subscribe, unsubscribe, replaceReducer.          *)
(***************************************************************************)
cfgVars == << observe, pc, middlewares, chain, linked, dispatch, composeVars >>

\* getState(), lines 126-137, called by code holding the store.
GetState ==
    /\ HoldsStore
    /\ IF isDispatching
       THEN /\ Raise(trace, Tracing)
            /\ Called("getState", TRUE, "reentrant", Registry)
       ELSE /\ UNCHANGED << stack, isDispatching, heap, trace, currentState,
                            currentListeners, nextListeners, subs >>
            /\ Called("getState", TRUE, "ok", Registry)
    /\ UNCHANGED << cfgVars, currentReducer >>

IsFunction(x) ==
    x \in Callbacks \cup Reducers \cup {Strict} \cup Range(WatchFns) \cup Range(MuteFns)

\* subscribe(listener), lines 165-187, up to the return of unsubscribe.
Subscribe(listener) ==
    /\ HoldsStore
    /\ Len(subs) < SubsBound
    /\ IF ~IsFunction(listener)
       THEN /\ Raise(trace, Tracing)
            /\ Called("subscribe", TRUE, "input", Registry)
       ELSE IF isDispatching
       THEN /\ Raise(trace, Tracing)
            /\ Called("subscribe", TRUE, "reentrant", Registry)
       ELSE LET e == ensureCanMutateNextListeners
            IN  /\ Commit(currentListeners, e.next,
                          [e.heap EXCEPT ![e.next] = Append(@, listener)], stack)
                /\ subs' = Append(subs, [listener |-> listener, isSubscribed |-> TRUE])
                /\ UNCHANGED << isDispatching, trace, currentState >>
                /\ Called("subscribe", TRUE, "ok", Registry)
    /\ UNCHANGED << cfgVars, currentReducer >>

\* A variant without the isSubscribed guard (for C7).
NeverUnsubscribed(k) == TRUE

\* The subscription k is still to be removed: the test of line 189.
StillSubscribed(k) == subs[k].isSubscribed

\* The unsubscribe function returned by the k-th subscribe, lines 188-206.
Unsubscribe(k) ==
    /\ HoldsStore
    /\ k \in DOMAIN subs
    /\ IF ~StillSubscribed(k)
       THEN /\ UNCHANGED << stack, isDispatching, heap, trace, currentState,
                            currentListeners, nextListeners, subs >>
            /\ CalledSub("unsubscribe", k, subs[k].isSubscribed, "ok", Registry)
       ELSE IF isDispatching
       THEN /\ Raise(trace, Tracing)
            /\ CalledSub("unsubscribe", k, subs[k].isSubscribed, "reentrant", Registry)
       ELSE LET e == ensureCanMutateNextListeners
                index == indexOf(e.heap[e.next], subs[k].listener)
            IN  /\ subs' = [subs EXCEPT ![k].isSubscribed = FALSE]
                /\ Commit(currentListeners, e.next,
                          [e.heap EXCEPT ![e.next] = splice1(@, index)], stack)
                /\ UNCHANGED << isDispatching, trace, currentState >>
                /\ CalledSub("unsubscribe", k, subs[k].isSubscribed, "ok", Registry)
    /\ UNCHANGED << cfgVars, currentReducer >>

\* A variant that dispatches REPLACE before it swaps the reducer (for C13).
ReplaceReducerSwapsLate(nextReducer) ==
    /\ HoldsStore
    /\ Calls < NestBound
    /\ IF ~IsFunction(nextReducer)
       THEN /\ Raise(trace, Tracing)
            /\ Called("replaceReducer", TRUE, "input", Registry)
            /\ UNCHANGED currentReducer
       ELSE /\ currentReducer' = nextReducer
            /\ RawDispatch(PlainAction(REPLACE), "replaceReducer", currentReducer,
                           FALSE, TRUE, trace, stack)
    /\ UNCHANGED cfgVars

\* A variant whose REPLACE action goes through the enhanced dispatch (for C18).
ReplaceReducerThroughChain(nextReducer) ==
    /\ HoldsStore
    /\ Calls < NestBound
    /\ IF ~IsFunction(nextReducer)
       THEN /\ Raise(trace, Tracing)
            /\ Called("replaceReducer", TRUE, "input", Registry)
            /\ UNCHANGED currentReducer
       ELSE /\ currentReducer' = nextReducer
            /\ IF Len(dispatch) = 0
               THEN RawDispatch(PlainAction(REPLACE), "replaceReducer", nextReducer,
                                FALSE, TRUE, trace, stack)
               ELSE /\ stack' = Append(stack, [kind |-> "mw", idx |-> Head(dispatch),
                                               next |-> Tail(dispatch),
                                               action |-> PlainAction(REPLACE),
                                               phase |-> "pre",
                                               outer |-> FALSE, entry |-> TRUE])
                    /\ UNCHANGED << isDispatching, heap, currentState, currentListeners,
                                    nextListeners, subs, lastCall, trace >>
    /\ UNCHANGED cfgVars

\* A variant that puts the old reducer back when its dispatch is refused
\* (for C19).
ReplaceReducerUndoneOnRefusal(nextReducer) ==
    /\ HoldsStore
    /\ Calls < NestBound
    /\ IF ~IsFunction(nextReducer)
       THEN /\ Raise(trace, Tracing)
            /\ Called("replaceReducer", TRUE, "input", Registry)
            /\ UNCHANGED currentReducer
       ELSE /\ currentReducer' = IF isDispatching THEN currentReducer ELSE nextReducer
            /\ RawDispatch(PlainAction(REPLACE), "replaceReducer", nextReducer,
                           FALSE, TRUE, trace, stack)
    /\ UNCHANGED cfgVars

\* replaceReducer(nextReducer), lines 297-310.
ReplaceReducer(nextReducer) ==
    /\ HoldsStore
    /\ Calls < NestBound
    /\ IF ~IsFunction(nextReducer)
       THEN /\ Raise(trace, Tracing)
            /\ Called("replaceReducer", TRUE, "input", Registry)
            /\ UNCHANGED currentReducer
       ELSE /\ currentReducer' = nextReducer
            /\ RawDispatch(PlainAction(REPLACE), "replaceReducer", nextReducer,
                           FALSE, TRUE, trace, stack)
    /\ UNCHANGED cfgVars

(***************************************************************************)
(* createStore: observable.                                                *)
(***************************************************************************)
Observers == {"watcher", "mute"}         \* objects with and without a next method
NotAnObject == "notAnObject"             \* e.g. a function or a number
Null == "null"
IsObject(x) == x \in Observers \cup {Null}      \* typeof x === 'object'

\* The closures in use: registered once, or being given their first value.
ClosuresInUse ==
    { subs[k].listener : k \in DOMAIN subs }
        \cup { stack[p].cb : p \in { q \in DOMAIN stack : stack[q].kind = "next" } }
Unused(names) == { i \in DOMAIN names : names[i] \notin ClosuresInUse }
\* The closure observeState a call of subscribe(observer) makes.
NewObserveState(observer) ==
    LET names == IF observer = "watcher" THEN WatchFns ELSE MuteFns
    IN  names[CHOOSE i \in Unused(names) : \A j \in Unused(names) : i <= j]

\* The calls of observable's subscribe that have not registered their listener yet.
Subscribing == Cardinality({ p \in DOMAIN stack : stack[p].kind = "next" })

\* outerSubscribe(observeState), line 343, with the stack stk below it.
outerSubscribe(listener, stk) ==
    IF isDispatching
    THEN /\ Raise(trace, Tracing)
         /\ Called("subscribe", TRUE, "reentrant", Registry)
    ELSE LET e == ensureCanMutateNextListeners
         IN  /\ Commit(currentListeners, e.next,
                       [e.heap EXCEPT ![e.next] = Append(@, listener)], stk)
             /\ subs' = Append(subs, [listener |-> listener, isSubscribed |-> TRUE])
             /\ UNCHANGED << isDispatching, trace, currentState >>
             /\ Called("subscribe", TRUE, "ok", Registry)

\* A variant that does not give the observer the current state (for C15).
ObservableSubscribeLater(observer) ==
    /\ HoldsStore
    /\ Len(subs) + Subscribing < SubsBound
    /\ IF ~IsObject(observer) \/ observer = Null
       THEN /\ Raise(trace, Tracing)
            /\ Called("observable.subscribe", TRUE, "input", Registry)
       ELSE outerSubscribe(NewObserveState(observer), stack)
    /\ UNCHANGED << cfgVars, currentReducer >>

\* store[$$observable]().subscribe(observer), lines 331-343: the check, then
\* observeState() calls observer.next(getState()) if there is a next, and
\* for an observer without one outerSubscribe follows at once.
ObservableSubscribe(observer) ==
    /\ HoldsStore
    /\ Len(subs) + Subscribing < SubsBound
    /\ IF ~IsObject(observer) \/ observer = Null
       THEN /\ Raise(trace, Tracing)
            /\ Called("observable.subscribe", TRUE, "input", Registry)
       ELSE IF ~HasNext(NewObserveState(observer))
       THEN outerSubscribe(NewObserveState(observer), stack)
       ELSE IF isDispatching
       THEN /\ Raise(trace, Tracing)
            /\ Called("getState", TRUE, "reentrant", Registry)
       ELSE /\ stack' = Append(stack, [kind |-> "next", cb |-> NewObserveState(observer),
                                       outer |-> FALSE, entry |-> FALSE,
                                       value |-> observeState(NewObserveState(observer))])
            /\ UNCHANGED << isDispatching, heap, trace, currentState, currentListeners,
                            nextListeners, subs >>
            /\ Called("getState", TRUE, "ok", Registry)
    /\ UNCHANGED << cfgVars, currentReducer >>

\* Lines 342-344: the first observer.next returns, the listener is registered
\* and the subscription object is returned.
FirstNextReturn ==
    /\ InFirstNext
    /\ outerSubscribe(Top.cb, Pop)
    /\ UNCHANGED << cfgVars, currentReducer >>

\* The first observer.next raises: nothing is registered.
FirstNextThrow ==
    /\ InFirstNext
    /\ Raise(trace, Tracing)
    /\ UNCHANGED << cfgVars, currentReducer, lastCall >>

(***************************************************************************)
(* compose and applyMiddleware.                                            *)
(*                                                                         *)
(* A dispatch function is written as the list of the middlewares it runs   *)
(* through, outermost first, before it reaches the store's own dispatch:   *)
(* << >> is store.dispatch itself.  Middleware i stands for                *)
(*     api => next => action => { pre; result = next(action); post }       *)
(* (the logger of applyMiddleware.js, lines 58-63).                        *)
(***************************************************************************)
StoreDispatch == << >>
\* The placeholder of lines 22-27, which raises whenever called.
Placeholder == << 0 >>
\* The dispatch function chain link i returns when given next.
Link(i, next) == << i >> \o next

\* A variant that composes left to right (for C10).
RECURSIVE composeLeftToRight(_, _)
composeLeftToRight(funcs, x) ==
    IF Len(funcs) = 0 THEN x
    ELSE composeLeftToRight(Tail(funcs), Link(Head(funcs), x))

\* compose(...funcs)(x), compose.js lines 12-26.
RECURSIVE compose(_, _)
compose(funcs, x) ==
    IF Len(funcs) = 0 THEN x
    ELSE IF Len(funcs) = 1 THEN Link(funcs[1], x)
    ELSE compose(SubSeq(funcs, 1, Len(funcs) - 1), Link(funcs[Len(funcs)], x))

\* Calling the dispatch function fn with action a, on top of the stack stk.
CallFn(fn, a, outer, entry, t, stk) ==
    IF fn = Placeholder
    THEN /\ Raise(t, outer \/ Tracing)
         /\ UNCHANGED lastCall
    ELSE IF fn = StoreDispatch
    THEN RawDispatch(a, "dispatch", currentReducer, outer, entry, t, stk)
    ELSE /\ stack' = Append(stk, [kind |-> "mw", idx |-> Head(fn), next |-> Tail(fn),
                                  action |-> a, phase |-> "pre",
                                  outer |-> outer, entry |-> entry])
         /\ trace' = IF outer /\ observe = "chain"
                     THEN Append(t, << "pre", Head(fn) >>)
                     ELSE t
         /\ UNCHANGED << isDispatching, heap, currentState, currentListeners,
                         nextListeners, subs, lastCall >>

(***************************************************************************)
(* The construction of the store.  pc tells where it stands:               *)
(*   "createStore"  createStore has set its variables (lines 97-101)       *)
(*   "init"         the INIT action is dispatched (line 357); once that    *)
(*                  dispatch has returned, applyMiddleware goes on         *)
(*   "factory"      a middleware factory is running (line 34)              *)
(*   "link"         a chain link is running, given its next (line 37)      *)
(*   "ready"        the enhanced store is returned to the application      *)
(*   "failed"       an error left applyMiddleware: no store is returned    *)
(***************************************************************************)
\* A variant that dispatches nothing (for C12).
CreateStoreWithoutInit ==
    /\ pc = "createStore"
    /\ pc' = "init"
    /\ UNCHANGED << composeVars, observe, middlewares, chain, linked, dispatch, currentReducer,
                    currentState, currentListeners, nextListeners, isDispatching,
                    heap, subs, stack, lastCall, trace >>

\* createStore, lines 97-101 and 357: the INIT action is dispatched.
CreateStore ==
    /\ pc = "createStore"
    /\ pc' = "init"
    /\ RawDispatch(PlainAction(INIT), "createStore", currentReducer,
                   FALSE, TRUE, trace, stack)
    /\ UNCHANGED << composeVars, observe, middlewares, chain, linked, dispatch, currentReducer >>

storeVars == << currentReducer, currentState, currentListeners, nextListeners,
               isDispatching, heap, subs, stack, lastCall, trace >>

\* Line 34: middlewares.map calls the next middleware factory with the API.
FactoryCall ==
    /\ pc = "init" /\ stack = << >>
    /\ Len(chain) < Len(middlewares)
    /\ pc' = "factory"
    /\ UNCHANGED << composeVars, observe, middlewares, chain, linked, dispatch, storeVars >>

\* Line 34: the factory returns its chain link.
FactoryReturn ==
    /\ pc = "factory" /\ stack = << >>
    /\ chain' = Append(chain, middlewares[Len(chain) + 1])
    /\ pc' = "init"
    /\ UNCHANGED << composeVars, observe, middlewares, linked, dispatch, storeVars >>

\* Line 37: the function compose returned, applied to store.dispatch, calls the
\* links from the last to the first, each with what the one before returned.
LinkCall ==
    /\ pc = "init" /\ stack = << >>
    /\ Len(chain) = Len(middlewares) /\ linked < Len(chain)
    /\ pc' = "link"
    /\ UNCHANGED << composeVars, observe, middlewares, chain, linked, dispatch, storeVars >>

\* Line 37: the link returns the dispatch function it wraps its next in.
LinkReturn ==
    /\ pc = "link" /\ stack = << >>
    /\ linked' = linked + 1
    /\ pc' = "init"
    /\ UNCHANGED << composeVars, observe, middlewares, chain, dispatch, storeVars >>

\* Lines 37-42: the composed function is assigned to `dispatch` and the
\* enhanced store is returned.
ApplyMiddleware ==
    /\ pc = "init" /\ stack = << >>
    /\ Len(chain) = Len(middlewares) /\ linked = Len(chain)
    /\ pc' = "ready"
    /\ dispatch' = compose(chain, StoreDispatch)
    /\ UNCHANGED << composeVars, observe, middlewares, chain, linked, storeVars >>

\* A variant whose API is bound to the store's own dispatch (for C11).
middlewareAPIDispatchBound == StoreDispatch

\* Line 31: middlewareAPI.dispatch forwards to what `dispatch` holds now.
middlewareAPIDispatch == dispatch

\* A middleware factory, or a chain link given its next, is running.
InSetup == pc \in {"factory", "link"} /\ stack = << >>

\* The code being set up calls middlewareAPI.dispatch(action): an error that
\* leaves it leaves applyMiddleware too.
SetupApiDispatch(a) ==
    /\ InSetup
    /\ CallFn(middlewareAPIDispatch, a, FALSE, TRUE, trace, stack)
    /\ pc' = IF stack' = << >> THEN "failed" ELSE pc
    /\ UNCHANGED << composeVars, observe, middlewares, chain, linked, dispatch, currentReducer >>

\* The code being set up calls middlewareAPI.getState().
SetupApiGetState ==
    /\ InSetup
    /\ ~isDispatching
    /\ lastCall' = [NoCall EXCEPT !.op = "api.getState", !.value = getState]
    /\ UNCHANGED << cfgVars, currentReducer, currentState, currentListeners,
                    nextListeners, isDispatching, heap, subs, stack, trace >>

\* store.dispatch(action) of the enhanced store, called by code holding the store.
CallDispatch(a) ==
    /\ HoldsStore
    /\ Calls < NestBound
    /\ CallFn(dispatch, a, AtTopLevel, TRUE, IF AtTopLevel THEN << >> ELSE trace, stack)
    /\ UNCHANGED << cfgVars, currentReducer >>

\* A middleware calls next(action).
MwCallNext ==
    /\ stack # << >> /\ Top.kind = "mw" /\ Top.phase = "pre"
    /\ CallFn(Top.next, Top.action, Top.outer, FALSE, trace,
              SetTop([Top EXCEPT !.phase = "post"]))
    /\ UNCHANGED << cfgVars, currentReducer >>

\* A running middleware calls middlewareAPI.dispatch(action).
MwApiDispatch(a) ==
    /\ pc = "ready" /\ stack # << >> /\ Top.kind = "mw"
    /\ Calls < NestBound
    /\ CallFn(middlewareAPIDispatch, a, FALSE, TRUE, trace, stack)
    /\ UNCHANGED << cfgVars, currentReducer >>

\* A running middleware calls middlewareAPI.getState(), which is
\* store.getState (line 30).
MwApiGetState ==
    /\ pc = "ready" /\ stack # << >> /\ Top.kind = "mw"
    /\ IF isDispatching
       THEN /\ Raise(trace, Tracing)
            /\ lastCall' = [NoCall EXCEPT !.op = "api.getState", !.ended = "reentrant"]
       ELSE /\ lastCall' = [NoCall EXCEPT !.op = "api.getState", !.value = getState]
            /\ UNCHANGED << stack, isDispatching, heap, trace, currentState,
                            currentListeners, nextListeners, subs >>
    /\ UNCHANGED << cfgVars, currentReducer >>

\* A middleware returns after its next has returned.
MwReturn ==
    /\ stack # << >> /\ Top.kind = "mw" /\ Top.phase = "post"
    /\ stack' = Pop
    /\ trace' = IF Top.outer /\ observe = "chain"
                THEN Append(trace, << "post", Top.idx >>)
                ELSE trace
    /\ UNCHANGED << cfgVars, currentReducer, currentState, currentListeners,
                    nextListeners, isDispatching, heap, subs, lastCall >>

(***************************************************************************)
(* compose on its own.  A function is a value: one of the functions given  *)
(* (<< "fn", name >>), the identity compose() returns (line 15), or a      *)
(* closure made by line 25 from two functions a and b.                     *)
(***************************************************************************)
MaxFuncs == 3                       \* functions given to compose
ArgValues == {0, 1, 2}
GivenFuncs == { << "fn", "inc" >>, << "fn", "dbl" >>, << "fn", "sum" >> }
\* The argument lists: one argument, or two.
ArgLists == { << x >> : x \in ArgValues } \cup (ArgValues \X ArgValues)
RECURSIVE SeqsUpTo(_, _)
SeqsUpTo(S, n) ==
    IF n = 0 THEN { << >> }
    ELSE SeqsUpTo(S, n - 1)
            \cup { Append(sq, x) : sq \in { t \in SeqsUpTo(S, n - 1) : Len(t) = n - 1 }, x \in S }

RECURSIVE SumOf(_)
SumOf(xs) == IF xs = << >> THEN 0 ELSE Head(xs) + SumOf(Tail(xs))
\* The functions given, called with the argument list xs: inc and dbl read
\* their first argument, sum adds up all it is given.
ApplyGiven(name, xs) ==
    IF name = "inc" THEN xs[1] + 1
    ELSE IF name = "dbl" THEN 2 * xs[1]
    ELSE SumOf(xs)

\* Line 15: arg => arg.
Identity == << "id" >>

\* A variant that applies a to the arguments and b to the result (for C14).
ClosureFlipped(a, b) == << "comp", b, a >>

\* Line 25: (a, b) => (...args) => a(b(...args)).
Closure(a, b) == << "comp", a, b >>

\* Calling the function value fn with the argument list xs.
RECURSIVE Call(_, _)
Call(fn, xs) ==
    IF fn[1] = "id" THEN xs[1]
    ELSE IF fn[1] = "fn" THEN ApplyGiven(fn[2], xs)
    ELSE Call(fn[2], << Call(fn[3], xs) >>)

\* Array.prototype.reduce without an initial value, from position i on.
RECURSIVE reduce(_, _, _)
reduce(acc, fs, i) ==
    IF i > Len(fs) THEN acc ELSE reduce(Closure(acc, fs[i]), fs, i + 1)

\* compose(...funcs), compose.js lines 12-26, as the function it returns.
composeFuncs(fs) ==
    IF Len(fs) = 0 THEN Identity
    ELSE IF Len(fs) = 1 THEN fs[1]
    ELSE reduce(fs[1], fs, 2)

\* compose is called with some functions; the function it returns is then
\* called with some arguments.
StartCompose ==
    /\ observe = "compose"
    /\ pc = "compose"
    /\ middlewares = << >>
    /\ chain = << >>
    /\ linked = 0
    /\ currentReducer = "counter"
    /\ currentState = 0
    /\ currentListeners = 1
    /\ nextListeners = 1
    /\ isDispatching = FALSE
    /\ heap = [id \in ArrIds |-> << >>]
    /\ subs = << >>
    /\ dispatch = Placeholder
    /\ stack = << >>
    /\ lastCall = NoCall
    /\ trace = << >>
    /\ functions \in SeqsUpTo(GivenFuncs, MaxFuncs)
    /\ args \in ArgLists
    /\ composed = Identity
    /\ result = 0

notComposeVars == << observe, middlewares, chain, linked, dispatch, storeVars >>

Compose ==
    /\ pc = "compose"
    /\ pc' = "composed"
    /\ composed' = composeFuncs(functions)
    /\ UNCHANGED << functions, args, result, notComposeVars >>

CallComposed ==
    /\ pc = "composed"
    /\ pc' = "called"
    /\ result' = Call(composed, args)
    /\ UNCHANGED << functions, args, composed, notComposeVars >>

ComposeNext ==
    \/ Compose
    \/ CallComposed

(***************************************************************************)
(* The specification.                                                      *)
(***************************************************************************)
PreloadedStates == {0, 1}

\* The store as createStore starts on it (lines 97-101), with applyMiddleware
\* given n middlewares, n in mws, and the history o recorded.
Start(o, mws) ==
    /\ observe = o
    /\ pc = "createStore"
    /\ middlewares \in { [p \in 1 .. n |-> p] : n \in mws }
    /\ currentReducer \in Reducers
    /\ currentState \in PreloadedStates
    /\ currentListeners = 1
    /\ nextListeners = 1
    /\ isDispatching = FALSE
    /\ heap = [id \in ArrIds |-> << >>]
    /\ subs = << >>
    /\ chain = << >>
    /\ linked = 0
    /\ dispatch = Placeholder
    /\ stack = << >>
    /\ lastCall = NoCall
    /\ trace = << >>
    /\ functions = << >>
    /\ args = << >>
    /\ composed = Identity
    /\ result = 0

\* The operations of a store.
StoreNext ==
    \/ CreateStore
    \/ ApplyMiddleware
    \/ \E a \in UserActions : CallDispatch(a)
    \/ GetState
    \/ \E l \in Callbacks \cup {NotAFunction} : Subscribe(l)
    \/ \E k \in DOMAIN subs : Unsubscribe(k)
    \/ \E r \in Reducers \cup {NotAFunction} : ReplaceReducer(r)
    \/ ReducerReturn
    \/ NotifyNext
    \/ DispatchReturn
    \/ ListenerReturn
    \/ ListenerThrow

\* The operations of a store one of whose reducers refuses REPLACE.
ReplaceNext ==
    \/ StoreNext
    \/ ReplaceReducer(Strict)

\* The operations of a store and of its observable view.
ObservableNext ==
    \/ StoreNext
    \/ \E o \in Observers \cup {NotAnObject, Null} : ObservableSubscribe(o)
    \/ FirstNextReturn
    \/ FirstNextThrow

\* The operations of a store and of its middlewares.
Next ==
    \/ StoreNext
    \/ FactoryCall
    \/ FactoryReturn
    \/ LinkCall
    \/ LinkReturn
    \/ \E a \in UserActions : SetupApiDispatch(a)
    \/ SetupApiGetState
    \/ MwCallNext
    \/ \E a \in UserActions : MwApiDispatch(a)
    \/ MwApiGetState
    \/ MwReturn

\* A store without middleware (applyMiddleware() of no middleware, whose
\* dispatch is store.dispatch itself), under each history.
SpecCalls == Start("calls", {0}) /\ [][StoreNext]_vars
SpecState == Start("state", {0}) /\ [][StoreNext]_vars
SpecPasses == Start("passes", {0}) /\ [][StoreNext]_vars
SpecSeen == Start("seen", {0}) /\ [][StoreNext]_vars
\* The same, with the reducer that refuses REPLACE.
SpecReplace == Start("replace", {0}) /\ [][ReplaceNext]_vars
\* A store without middleware and its observable view.
SpecObservable == Start("observable", {0}) /\ [][ObservableNext]_vars
\* A store with up to MaxMw middlewares.
Spec == Start("chain", 0 .. MaxMw) /\ [][Next]_vars
\* compose on its own.
SpecCompose == StartCompose /\ [][ComposeNext]_vars

(***************************************************************************)
(* Properties.                                                             *)
(***************************************************************************)
\* The innermost call is a dispatch whose pass is over: it returns the action
\* in the next step, and what getState() gives right after the return is
\* currentState now.
AboutToReturn == stack # << >> /\ HoldsSnapshot(Top) /\ PassOver(Top)

DispatchFrames == { p \in DOMAIN stack : stack[p].kind = "dispatch" }
Passes == { p \in DOMAIN stack : HoldsSnapshot(stack[p]) }

\* C1 as stated: when a dispatch(action) call returns normally, the state is
\* the reducer current at the call applied to the state held before the call
\* and the action, whatever the listeners do.
C1_StateIsReducerResult ==
    AboutToReturn => currentState = Reduce(Top.reducer, Top.prevState, Top.action)

\* C1 amended: when a dispatch(action) call returns normally and no listener
\* invoked by its pass has itself dispatched (directly or through
\* replaceReducer), the state is the reducer current at the call applied to
\* the state held before the call and the action.
C1_StateIsReducerResultUnlessNested ==
    (AboutToReturn /\ ~Top.nested)
        => currentState = Reduce(Top.reducer, Top.prevState, Top.action)

\* A dispatch of INC that has notified a listener, none of which dispatched,
\* is about to return with a new state.
C1_Witness ==
    /\ observe = "state"
    /\ AboutToReturn /\ ~Top.nested
    /\ Top.action.type = "INC" /\ Top.i > 0
    /\ currentState # Top.prevState

\* C2: the listeners a pass invokes are, in order, the snapshot as it stood
\* when the pass began, and the array the pass iterates is never changed,
\* whatever the listeners subscribe, unsubscribe or dispatch meanwhile.
C2_PassIteratesFrozenSnapshot ==
    \A p \in Passes :
        /\ heap[stack[p].listeners] = stack[p].snap0
        /\ stack[p].invoked = SubSeq(stack[p].snap0, 1, stack[p].i)

\* A pass with listeners still to invoke whose listener has changed the
\* subscriptions and then dispatched: the nested pass has another snapshot.
C2_Witness ==
    /\ observe = "passes"
    /\ \E p, q \in Passes :
          /\ p < q
          /\ stack[p].i < Len(stack[p].snap0)
          /\ stack[q].snap0 # stack[p].snap0
          /\ stack[q].i > 0

\* The callbacks of the subscriptions in S, as a bag and in registration order.
RECURSIVE CallbacksFrom(_, _)
CallbacksFrom(S, k) ==
    IF k > Len(subs) THEN << >>
    ELSE (IF k \in S THEN << subs[k].listener >> ELSE << >>) \o CallbacksFrom(S, k + 1)
CallbacksOf(S) == CallbacksFrom(S, 1)
RECURSIVE BagOfSeq(_)
BagOfSeq(sq) == IF sq = << >> THEN EmptyBag ELSE SetToBag({Head(sq)}) (+) BagOfSeq(Tail(sq))

\* C3: the snapshot a dispatch takes holds exactly the callbacks of the
\* subscriptions live at that moment, so every subscribe and unsubscribe made
\* before it (by a listener of an enclosing or earlier dispatch as well) shows
\* in it, nested or not; and a pass that is over has invoked exactly those.
C3_NextDispatchSeesChanges ==
    \A p \in Passes :
        /\ BagOfSeq(stack[p].snap0) = BagOfSeq(CallbacksOf(stack[p].liveAtSnap))
        /\ PassOver(stack[p])
              => BagOfSeq(stack[p].invoked) = BagOfSeq(CallbacksOf(stack[p].liveAtSnap))

\* During the pass of D1 a listener has subscribed k and unsubscribed j and
\* dispatched D2, whose pass is over: it invoked k's callback and held no
\* entry for j.
C3_Witness ==
    /\ observe = "passes"
    /\ \E p, q \in Passes :
          /\ p < q /\ q = Len(stack) /\ PassOver(stack[q])
          /\ \E k \in stack[q].liveAtSnap \ stack[p].liveAtSnap :
                \E n \in DOMAIN stack[q].invoked : stack[q].invoked[n] = subs[k].listener
          /\ \E j \in stack[p].liveAtSnap \ stack[q].liveAtSnap :
                \A n \in DOMAIN stack[q].invoked : stack[q].invoked[n] # subs[j].listener

StoreOps == {"dispatch", "getState", "subscribe", "unsubscribe"}

\* C4 as stated: every call of dispatch, getState, subscribe or an unsubscribe
\* function made while the reducer is executing raises an error and changes
\* neither the state nor the listener registry.
C4_CallsInReducerRaise ==
    (lastCall.op \in StoreOps /\ lastCall.dispatching)
        => (lastCall.ended # "ok" /\ ~lastCall.changed)

\* C5: the dispatch flag is true exactly while a reducer is on the call stack
\* (so it is false while a listener runs and after every exit of dispatch,
\* also when the reducer raised), and the call that follows a dispatch whose
\* reducer raised is not refused as reentrant.
C5_FlagOnlyWhileReducing ==
    /\ isDispatching <=> \E p \in DispatchFrames : stack[p].phase = "reduce"
    /\ InListener => ~isDispatching
    /\ lastCall.op = "reducerRaised" => (~isDispatching /\ stack = << >>)
    /\ lastCall.afterRaise => lastCall.ended # "reentrant"

\* Right after a dispatch whose reducer raised, another dispatch is accepted.
C5_Witness ==
    /\ lastCall.afterRaise /\ lastCall.op = "dispatch" /\ lastCall.ended = "ok"
    /\ InReducer

\* C6 as stated: a pass invokes the callbacks of the subscriptions live when
\* its snapshot was taken in the order in which those subscriptions were
\* registered, also when a callback is subscribed more than once.
C6_RegistrationOrder ==
    \A p \in Passes : stack[p].snap0 = CallbacksOf(stack[p].liveAtSnap)

\* C7: calling an unsubscribe function again, in Idle, raises nothing and
\* leaves the listener registry (and the state) as it was.
C7_SecondUnsubscribeIsNoOp ==
    (lastCall.op = "unsubscribe" /\ ~lastCall.live /\ ~lastCall.dispatching)
        => (lastCall.ended = "ok" /\ ~lastCall.changed)

\* An unsubscribe function was called again while another subscription of
\* the same callback is live.
C7_Witness ==
    /\ lastCall.op = "unsubscribe" /\ ~lastCall.live /\ ~lastCall.dispatching
    /\ \E k \in LiveSubs : subs[k].listener = subs[lastCall.sub].listener

\* How often x occurs in the array arr.
Count(arr, x) == Cardinality({ p \in DOMAIN arr : arr[p] = x })

\* C8: the next-listener list holds, for every callback, as many entries as
\* that callback has subscriptions whose unsubscribe has not run successfully.
C8_EntriesMatchLiveSubscriptions ==
    \A cb \in Callbacks :
        Count(heap[nextListeners], cb)
            = Cardinality({ k \in LiveSubs : subs[k].listener = cb })

\* One of two subscriptions of a callback has been removed while a
\* subscription of another callback stays.
C8_Witness ==
    /\ observe = "passes"
    /\ \E k, j, m \in DOMAIN subs :
          /\ ~subs[k].isSubscribed /\ subs[j].isSubscribed /\ subs[m].isSubscribed
          /\ subs[k].listener = subs[j].listener
          /\ subs[m].listener # subs[k].listener

Onion(n) ==
    [p \in 1 .. n |-> << "pre", p >>] \o << << "raw", 0 >>, << "done", 0 >> >>
        \o [p \in 1 .. n |-> << "post", n + 1 - p >>]
IsPrefix(a, b) == Len(a) <= Len(b) /\ a = SubSeq(b, 1, Len(a))

\* C10: a dispatch on the enhanced store runs the code before next of m1..mn
\* in list order, then the store's dispatch, then the code after next in the
\* order mn..m1; the next of mi is the dispatch made by m(i+1), that of mn the
\* store's dispatch.
C10_OnionOrder ==
    LET n == Len(middlewares)
        ran == IF trace # << >> /\ trace[Len(trace)] = Raised
               THEN SubSeq(trace, 1, Len(trace) - 1)
               ELSE trace
    IN  /\ IsPrefix(ran, Onion(n))
        /\ (AtTopLevel /\ trace # << >> /\ ran = trace) => trace = Onion(n)
        /\ pc = "ready" => dispatch = middlewares
        /\ \A p \in DOMAIN stack :
              stack[p].kind = "mw"
                  => stack[p].next = SubSeq(middlewares, stack[p].idx + 1, n)

\* A dispatch through two middlewares has returned.
C10_Witness ==
    /\ AtTopLevel /\ Len(middlewares) = 2 /\ trace = Onion(2)

\* C11: while applyMiddleware is still constructing (a middleware factory or
\* a chain link is running), `dispatch` is the placeholder and no dispatch is
\* in progress; a call of middlewareAPI.dispatch made then raises, whatever
\* the action, never starts the reducer and leaves the state, the listener
\* registry and the flag as they were, and no store is returned.
C11_SetupDispatchRaises ==
    /\ [](pc \in {"factory", "link", "failed"}
            => (dispatch = Placeholder /\ stack = << >> /\ ~isDispatching))
    /\ [][(\E a \in UserActions : SetupApiDispatch(a))
            => /\ pc' = "failed"
               /\ stack' = << >>
               /\ currentState' = currentState
               /\ Registry' = Registry
               /\ ~isDispatching']_vars

\* The second of two chain links called middlewareAPI.dispatch while it was
\* set up (the first link set up, the last of the list, had returned).
C11_Witness ==
    /\ pc = "failed"
    /\ Len(middlewares) = 2 /\ Len(chain) = 2 /\ linked = 1

\* C12: createStore dispatches INIT once, before the store is returned: the
\* step that leaves createStore's first lines starts it, with the flag false,
\* on the preloaded state and the reducer given; no other dispatch ever
\* carries INIT; it invokes no listener; and when it returns the state is
\* reducer(preloadedState, INIT), which is preloadedState for a reducer that
\* returns its input for the actions it does not know ("counter").
C12_InitDispatchedOnce ==
    /\ [](pc = "createStore" => (stack = << >> /\ ~isDispatching))
    /\ [](\A p \in DispatchFrames :
             stack[p].action.type = INIT
                 => (pc = "init" /\ Len(stack) = 1 /\ stack[p].i = 0
                        /\ heap[nextListeners] = << >>))
    /\ [][pc = "createStore" /\ pc' # pc
            => /\ pc' = "init"
               /\ Len(stack') = 1 /\ stack'[1].kind = "dispatch"
               /\ stack'[1].action = PlainAction(INIT)
               /\ stack'[1].prevState = currentState
               /\ stack'[1].reducer = currentReducer]_vars
    /\ [][(pc = "init" /\ stack # << >>)
            => /\ pc' = "init"
               /\ stack' = << >>
                   => /\ HoldsSnapshot(Top) /\ Top.i = 0 /\ ~isDispatching'
                      /\ currentState' = Reduce(Top.reducer, Top.prevState, PlainAction(INIT))
                      /\ currentReducer' = Top.reducer
                      /\ Top.reducer = "counter" => currentState' = Top.prevState]_vars

\* The store is about to be returned, built with preloadedState = 1 and a
\* reducer that returns its input for unknown actions.
C12_Witness ==
    /\ observe = "state"
    /\ pc = "init" /\ stack = << >>
    /\ currentReducer = "counter" /\ currentState = 1

\* C13: replaceReducer(nextReducer), called while no reducer runs with a
\* callable nextReducer, stores nextReducer and starts a dispatch of REPLACE
\* that runs nextReducer on the state held before; that dispatch commits
\* nextReducer(previousState, REPLACE) and notifies the listeners current
\* then, each once (the state is still that one at its return unless a
\* listener dispatched meanwhile).  Every reducer that runs is the stored
\* one, and the stored one changes only by replaceReducer: no later dispatch
\* is computed with the old reducer.
C13_ReplaceReducerTakesOver ==
    /\ [](InReducer => Top.reducer = currentReducer)
    /\ [](AboutToReturn /\ Top.action.type = REPLACE
            => /\ Top.i = Len(heap[Top.listeners])
               /\ ~Top.nested
                   => currentState = Reduce(Top.reducer, Top.prevState, PlainAction(REPLACE)))
    /\ [][currentReducer' # currentReducer
            => \E r \in Reducers : ReplaceReducer(r) /\ currentReducer' = r]_vars
    /\ [][\A r \in Reducers :
             (ReplaceReducer(r) /\ ~isDispatching)
                 => /\ currentReducer' = r
                    /\ InReducer'
                    /\ Top'.reducer = r
                    /\ Top'.action = PlainAction(REPLACE)
                    /\ Top'.prevState = currentState
                    /\ currentState' = currentState]_vars
    /\ [][(InReducer /\ Top.action.type = REPLACE /\ ReducerReturn)
            => /\ currentState' = Reduce(currentReducer, Top.prevState, PlainAction(REPLACE))
               /\ currentReducer' = currentReducer
               /\ HoldsSnapshot(Top') /\ Top'.i = 0
               /\ heap'[Top'.listeners] = heap[nextListeners]]_vars

\* A replaceReducer("doubler") is about to return: it changed the state and
\* notified a listener, none of which dispatched.
C13_Witness ==
    /\ observe = "state"
    /\ AboutToReturn /\ Top.action.type = REPLACE /\ Top.reducer = "doubler"
    /\ Top.i > 0 /\ ~Top.nested
    /\ currentState # Top.prevState

\* f1(f2(...fn(xs))): the functions applied from the last to the first, the
\* last to the argument list and each other one to the one value the function
\* after it returned.
RECURSIVE RightToLeft(_, _)
RightToLeft(fs, xs) ==
    IF Len(fs) = 1 THEN Call(fs[1], xs)
    ELSE Call(Head(fs), << RightToLeft(Tail(fs), xs) >>)

\* C14: the function compose returns for no function is the identity; for
\* one function it is that function; for f1..fn it returns, on every argument
\* list, f1(f2(...fn(args))), only fn being given the whole list.
C14_ComposeRightToLeft ==
    /\ (pc \in {"composed", "called"} /\ Len(functions) = 0)
          => \A x \in ArgValues : Call(composed, << x >>) = x
    /\ (pc \in {"composed", "called"} /\ Len(functions) = 1) => composed = functions[1]
    /\ pc = "called"
          => result = IF Len(functions) = 0 THEN args[1] ELSE RightToLeft(functions, args)

\* compose(inc, dbl, sum)(1, 2) has returned inc(dbl(sum(1, 2))) = 7.
C14_Witness ==
    /\ pc = "called"
    /\ functions = << << "fn", "inc" >>, << "fn", "dbl" >>, << "fn", "sum" >> >>
    /\ args = << 1, 2 >>
    /\ result = 7

\* C15: subscribe(observer) of the observable view, for an observer with a
\* next method, calls next at once with the state current then and registers
\* its listener when that call has returned; every notification pass whose
\* snapshot is taken while the subscription is live holds that listener once
\* and calls next once, with the state current at that call; once the
\* subscription's unsubscribe has run no later snapshot holds the listener.
C15_ObserverFollowsState ==
    /\ [](\A p \in Passes :
             /\ stack[p].invoked = SubSeq(stack[p].snap0, 1, stack[p].i)
             /\ PassOver(stack[p]) => stack[p].invoked = stack[p].snap0
             /\ \A p2 \in DOMAIN WatchFns :
                   Count(stack[p].snap0, WatchFns[p2])
                       = Cardinality({ k \in stack[p].liveAtSnap :
                                          subs[k].listener = WatchFns[p2] }))
    /\ [](\A k \in DOMAIN subs :
             HasNext(subs[k].listener)
                 => /\ \A j \in DOMAIN subs : subs[j].listener = subs[k].listener => j = k
                    /\ Count(heap[nextListeners], subs[k].listener)
                           = IF subs[k].isSubscribed THEN 1 ELSE 0)
    /\ [][(ObservableSubscribe("watcher") /\ ~isDispatching)
            => /\ InFirstNext'
               /\ Pop' = stack
               /\ Top'.value = currentState
               /\ Top'.cb \notin ClosuresInUse
               /\ subs' = subs /\ Registry' = Registry]_vars
    /\ [][FirstNextReturn
            => /\ subs' = Append(subs, [listener |-> Top.cb, isSubscribed |-> TRUE])
               /\ heap'[nextListeners'] = Append(heap[nextListeners], Top.cb)
               /\ Len(stack') = Len(stack) - 1]_vars
    /\ [][(NotifyNext /\ HasNext(Top'.cb)) => Top'.value = currentState]_vars

\* A pass is over that called the next of a live observer and held nothing
\* of an observer whose unsubscribe had run.
C15_Witness ==
    /\ observe = "observable"
    /\ \E p \in Passes :
          /\ PassOver(stack[p])
          /\ \E k \in LiveSubs :
                /\ HasNext(subs[k].listener)
                /\ subs[k].listener \in Range(stack[p].invoked)
          /\ \E j \in DOMAIN subs :
                /\ HasNext(subs[j].listener) /\ ~subs[j].isSubscribed
                /\ subs[j].listener \notin Range(stack[p].snap0)

\* C16: while the reducer of a dispatch runs, the state is still the one held
\* before the call and the pass has not begun; if the reducer raises, the
\* error leaves dispatch (and every caller), the state stays that one, no
\* listener is invoked, the flag is cleared, and currentListeners still
\* refers to the array it referred to: it is not made an alias of
\* nextListeners, and neither array nor any subscription changes.
C16_ReducerRaiseChangesNothing ==
    /\ [](InReducer => (currentState = Top.prevState /\ Top.i = 0))
    /\ [][(ReducerReturn /\ ReducerThrows(Top.reducer, Top.prevState, Top.action))
            => /\ stack' = << >>
               /\ currentState' = Top.prevState
               /\ ~isDispatching'
               /\ (currentListeners' = nextListeners') <=> (currentListeners = nextListeners)
               /\ heap'[currentListeners'] = heap[currentListeners]
               /\ heap'[nextListeners'] = heap[nextListeners]
               /\ subs' = subs
               /\ currentReducer' = currentReducer]_vars

\* The reducer has just raised while a subscription made after the last
\* snapshot was waiting in the next list only.
C16_Witness ==
    /\ lastCall.op = "reducerRaised"
    /\ currentListeners # nextListeners
    /\ heap[currentListeners] # heap[nextListeners]

\* Once applyMiddleware has returned the store, middlewareAPI.dispatch called
\* by a running middleware, whichever it is and whether before or after its
\* own next, enters the chain at its first middleware with the action given
\* and the rest of the chain as its next, while a middleware's own next goes
\* one step on only.
ApiDispatchEntersAtFirst ==
    /\ [](pc = "ready" => (middlewareAPIDispatch = middlewares /\ chain = middlewares))
    /\ [][\A a \in UserActions :
             MwApiDispatch(a)
                 => /\ Pop' = stack
                    /\ Top'.kind = "mw"
                    /\ Top'.idx = middlewares[1]
                    /\ Top'.next = Tail(middlewares)
                    /\ Top'.action = a
                    /\ Top'.phase = "pre"
                    /\ currentState' = currentState]_vars
    /\ [][MwCallNext
            => \/ stack' = << >>
               \/ /\ Len(stack') = Len(stack) + 1
                  /\ IF Top.idx = Len(middlewares)
                     THEN Top'.kind = "dispatch" /\ Top'.action = Top.action
                     ELSE /\ Top'.kind = "mw" /\ Top'.idx = Top.idx + 1
                          /\ Top'.action = Top.action]_vars

\* C17 as stated: middlewareAPI.dispatch enters the chain at its first
\* middleware, and every call of middlewareAPI.getState by a middleware
\* returns the store's state of that moment.
C17_ApiGetStateReturnsState ==
    /\ ApiDispatchEntersAtFirst
    /\ [][MwApiGetState
            => /\ lastCall'.value = currentState
               /\ lastCall'.ended # "reentrant"
               /\ stack' = stack]_vars

\* C17: middlewareAPI.dispatch enters the chain at its first middleware, and
\* middlewareAPI.getState called by a middleware returns the store's state of
\* that moment and changes nothing, unless a reducer is running (the chain
\* was entered from inside a reducer): then it raises, as store.getState
\* does, and the state is left alone.
C17_ApiGetStateReturnsStateUnlessReducing ==
    /\ ApiDispatchEntersAtFirst
    /\ [][MwApiGetState
            => IF isDispatching
               THEN /\ stack' = << >> /\ currentState' = currentState
                    /\ lastCall'.ended = "reentrant"
               ELSE /\ lastCall'.value = currentState
                    /\ lastCall'.ended # "reentrant"
                    /\ UNCHANGED << stack, currentState, isDispatching, heap,
                                    currentListeners, nextListeners, subs >>]_vars

\* The second of two middlewares has called middlewareAPI.dispatch after its
\* next returned, the action has entered the first middleware again, and that
\* one has read a state other than the initial one through
\* middlewareAPI.getState.
C17_Witness ==
    /\ Len(middlewares) = 2 /\ Len(stack) = 3
    /\ stack[1].kind = "mw" /\ stack[1].idx = 1 /\ stack[1].phase = "post"
    /\ stack[2].kind = "mw" /\ stack[2].idx = 2 /\ stack[2].phase = "post"
    /\ stack[3].kind = "mw" /\ stack[3].idx = 1 /\ stack[3].entry
    /\ lastCall.op = "api.getState" /\ lastCall.value = currentState
    /\ currentState # 0

Reserved == {INIT, REPLACE}

\* C18: in a store built with applyMiddleware, createStore dispatches INIT
\* and replaceReducer dispatches REPLACE by the store's own dispatch, straight
\* to the reducer: no middleware is ever running one of them, the reducer
\* that runs one was not called by a middleware, and a middleware starts only
\* for an action given to the enhanced dispatch or to middlewareAPI.dispatch,
\* or handed on by the middleware before it.
C18_ReservedActionsBypassMiddleware ==
    /\ [](\A p \in DOMAIN stack :
             /\ stack[p].kind = "mw" => stack[p].action.type \notin Reserved
             /\ (stack[p].kind = "dispatch" /\ stack[p].phase = "reduce"
                    /\ stack[p].action.type \in Reserved)
                  => (p = 1 \/ stack[p - 1].kind # "mw"))
    /\ [][CreateStore
            => /\ Len(stack') = 1 /\ Top'.kind = "dispatch"
               /\ Top'.phase = "reduce" /\ Top'.action = PlainAction(INIT)
               /\ trace' = trace]_vars
    /\ [][\A r \in Reducers :
             ReplaceReducer(r)
                 => \/ stack' = << >>
                    \/ /\ Pop' = stack /\ Top'.kind = "dispatch"
                       /\ Top'.phase = "reduce" /\ Top'.reducer = r
                       /\ Top'.action = PlainAction(REPLACE)
                       /\ trace' = trace]_vars
    /\ [][(Len(stack') = Len(stack) + 1 /\ Top'.kind = "mw")
            => \/ \E a \in UserActions : CallDispatch(a) /\ Top'.action = a
               \/ \E a \in UserActions : MwApiDispatch(a) /\ Top'.action = a
               \/ MwCallNext /\ Top'.action = Top.action]_vars

\* A listener notified by a dispatch that went through two middlewares has
\* called replaceReducer, and the new reducer is running the REPLACE action.
C18_Witness ==
    /\ Len(middlewares) = 2 /\ Len(stack) = 5
    /\ stack[1].kind = "mw" /\ stack[2].kind = "mw"
    /\ stack[3].kind = "dispatch" /\ stack[3].phase = "notify"
    /\ stack[4].kind = "listener"
    /\ Top.kind = "dispatch" /\ Top.phase = "reduce"
    /\ Top.action.type = REPLACE /\ Top.reducer = currentReducer

\* replaceReducer(r) is called while a reducer runs: its dispatch is refused.
ReplaceRefused(r) == ReplaceReducer(r) /\ isDispatching
\* The reducer given to replaceReducer raises on the REPLACE action.
ReplaceRaises ==
    /\ ReducerReturn
    /\ Top.action.type = REPLACE
    /\ ReducerThrows(Top.reducer, Top.prevState, Top.action)
\* While the new reducer runs the REPLACE action, the state and the registry
\* are those of the moment replaceReducer was called.
ReplaceHoldsStore ==
    (InReducer /\ Top.action.type = REPLACE)
        => (currentState = Top.prevState /\ Registry = Top.atCall[2])

\* C19 as stated: a replaceReducer call that raises, because a reducer is
\* running or because the new reducer raises on REPLACE, leaves the stored
\* reducer, the state and the listener registry as they were before the call.
C19_RaisingReplaceChangesNothing ==
    /\ []ReplaceHoldsStore
    /\ [][\A r \in Reducers \cup {Strict} :
             ReplaceRefused(r)
                 => /\ stack' = << >>
                    /\ currentReducer' = currentReducer
                    /\ currentState' = currentState
                    /\ Registry' = Registry]_vars
    /\ [][ReplaceRaises
            => /\ stack' = << >>
               /\ currentReducer' = Top.atCall[1]
               /\ currentState' = Top.prevState
               /\ Registry' = Top.atCall[2]]_vars

\* C19 amended: such a call leaves the state and the listener registry as
\* they were before the call, and the stored reducer is the one the call was
\* given.
C19_RaisingReplaceKeepsNewReducer ==
    /\ []ReplaceHoldsStore
    /\ [][\A r \in Reducers \cup {Strict} :
             ReplaceRefused(r)
                 => /\ stack' = << >>
                    /\ currentReducer' = r
                    /\ currentState' = currentState
                    /\ Registry' = Registry]_vars
    /\ [][ReplaceRaises
            => /\ stack' = << >>
               /\ currentReducer' = Top.reducer
               /\ currentReducer = Top.reducer
               /\ currentState' = Top.prevState
               /\ Registry' = Top.atCall[2]]_vars

\* replaceReducer was given the reducer that raises on REPLACE, on a store
\* with a state other than the initial one and a live subscription, and the
\* error has left the call.
C19_Witness ==
    /\ currentReducer = Strict
    /\ stack = << >> /\ ~isDispatching
    /\ currentState # 0 /\ LiveSubs # {}

\* C20: a listener that raises ends every call in progress with the error,
\* the state stays the one the reducer's return committed, the flag is false,
\* and the entries of the snapshot after the raising listener are not
\* invoked (a pass has invoked the entries of its snapshot up to its index,
\* and the pass is gone); the error leaves the subscriptions and the
\* next-listener list alone, that list holds the live subscriptions, the
\* next dispatch takes it as its snapshot and a pass that ends has invoked
\* the whole of its snapshot: so the next dispatch invokes the listeners
\* that were skipped and are still subscribed.
C20_ListenerRaiseSkipsRestOnce ==
    /\ [](InListener => ~isDispatching)
    /\ [](\A p \in Passes :
             /\ heap[stack[p].listeners] = stack[p].snap0
             /\ stack[p].invoked = SubSeq(stack[p].snap0, 1, stack[p].i))
    /\ [](\A cb \in Callbacks :
             Count(heap[nextListeners], cb)
                 = Cardinality({ k \in LiveSubs : subs[k].listener = cb }))
    /\ [][ListenerThrow
            => /\ stack' = << >>
               /\ currentState' = currentState
               /\ ~isDispatching'
               /\ subs' = subs
               /\ heap'[nextListeners'] = heap[nextListeners]]_vars
    /\ [][(ReducerReturn /\ stack' # << >>)
            => Top'.snap0 = heap[nextListeners]]_vars
    /\ [][DispatchReturn => Top.invoked = Top.snap0]_vars

\* A listener has raised with entries of the snapshot left after it, two
\* subscriptions are live, and the state is not the initial one.
C20_Witness ==
    /\ lastCall.op = "listenerRaised" /\ lastCall.value > 0
    /\ stack = << >>
    /\ Cardinality(LiveSubs) >= 2
    /\ currentState # 0

====
